---- MODULE Spec2Model ----
(***************************************************************************)
(* A model of the check-in API of src/api/server.js: the in-memory event   *)
(* store, the middleware chain and the five route handlers.                *)
(*                                                                         *)
(* JavaScript values are represented as follows.                           *)
(*   - ids, titles, header values and timestamps are TLA+ strings;         *)
(*   - text that the code inspects character by character (names, emails,  *)
(*     documents, query-string values) is a sequence of one-character      *)
(*     strings;                                                            *)
(*   - null and undefined are the strings Null and Undefined;              *)
(*   - a JS number is a record [isNaN, val] (val = 0 when isNaN);          *)
(*   - an object is a record; a property that is absent holds Undefined,   *)
(*     which is what reading it gives.                                     *)
(* Handlers run to completion: the code has no await, timer or callback    *)
(* between the first line of a route handler and its response.             *)
(***************************************************************************)
EXTENDS Integers, Sequences, FiniteSets, TLC

VARIABLES
    TOKEN,      \* process.env.TOKEN || null, fixed when the process starts
    events,     \* the in-memory store: a sequence of event records
    last,       \* the request handled last and the response it received
    inflight,   \* requests received whose body is still being read
    responses,  \* request id -> response, for the requests answered so far
    overlapped  \* pairs of request ids that were in flight at the same time

vars == <<TOKEN, events, last, inflight, responses, overlapped>>

----------------------------------------------------------------------------
(* Bounds of the model.                                                    *)

\* The clock readings new Date() can return are ISO(1) .. ISO(MaxClock).
MaxClock == 2

\* Request ids of the concurrent specification are 1 .. MaxRequests.
MaxRequests == 2

----------------------------------------------------------------------------
(* JavaScript values.                                                      *)

Null == "<null>"
Undefined == "<undefined>"

Num(n) == [isNaN |-> FALSE, val |-> n]
NaN == [isNaN |-> TRUE, val |-> 0]

\* !!v for the values a string-typed property can hold.
Truthy(v) == v # Null /\ v # Undefined /\ v # ""

\* Math.max(a, b): NaN when either argument is NaN.
MathMax(a, b) ==
    IF a.isNaN \/ b.isNaN THEN NaN
    ELSE IF a.val >= b.val THEN a ELSE b

\* The index ToIntegerOrInfinity gives Array.prototype.slice: NaN becomes 0.
ToIntegerOrZero(n) == IF n.isNaN THEN 0 ELSE n.val

\* arr.slice(start, end) with 0-based JS indices, start and end >= 0.
Slice(arr, start, end) ==
    LET s == ToIntegerOrZero(start)
        e == ToIntegerOrZero(end)
        lo == IF s > Len(arr) THEN Len(arr) ELSE s
        hi == IF e > Len(arr) THEN Len(arr) ELSE e
    IN  IF hi <= lo THEN <<>> ELSE SubSeq(arr, lo + 1, hi)

RECURSIVE SelectIndex(_, _, _)
\* arr.find(pred): the first index whose element is in the set ok, or 0.
SelectIndex(arr, ok, i) ==
    IF i > Len(arr) THEN 0
    ELSE IF arr[i] \in ok THEN i
    ELSE SelectIndex(arr, ok, i + 1)

----------------------------------------------------------------------------
(* Utils: toISO / nowISO / normalize.                                      *)

\* new Date().toISOString() at clock reading t.
ISO(t) == "2025-09-15T12:00:00.00" \o ToString(t) \o "Z"

Clock == 1 .. MaxClock

CombiningAcute == "U+0301"
CombiningTilde == "U+0303"
CombiningMarks == {CombiningAcute, CombiningTilde}

\* Canonical decomposition of one character.
Decomposition ==
    [c \in {"é", "É", "ã"} |->
        CASE c = "é" -> <<"e", CombiningAcute>>
          [] c = "É" -> <<"E", CombiningAcute>>
          [] c = "ã" -> <<"a", CombiningTilde>>]

DecomposeChar(c) == IF c \in DOMAIN Decomposition THEN Decomposition[c] ELSE <<c>>

RECURSIVE NFD(_)
\* s.normalize('NFD'): unchanged when no character of s decomposes.
NFD(s) ==
    IF \A i \in 1 .. Len(s) : s[i] \notin DOMAIN Decomposition THEN s
    ELSE DecomposeChar(Head(s)) \o NFD(Tail(s))

StripMarks(s) == SelectSeq(s, LAMBDA c : c \notin CombiningMarks)

Upper == <<"A", "B", "C", "D", "E", "F", "G", "H", "I", "J", "K", "L", "M",
           "N", "O", "P", "Q", "R", "S", "T", "U", "V", "W", "X", "Y", "Z">>
Lower == <<"a", "b", "c", "d", "e", "f", "g", "h", "i", "j", "k", "l", "m",
           "n", "o", "p", "q", "r", "s", "t", "u", "v", "w", "x", "y", "z">>

\* The lower-case letter of each upper-case letter.
LowerOf ==
    [c \in {Upper[i] : i \in 1 .. Len(Upper)} |->
        Lower[CHOOSE i \in 1 .. Len(Upper) : Upper[i] = c]]

LowerChar(c) == IF c \in DOMAIN LowerOf THEN LowerOf[c] ELSE c

ToLowerCase(s) == [i \in 1 .. Len(s) |-> LowerChar(s[i])]

normalize(s) == ToLowerCase(StripMarks(NFD(s)))

\* target.includes(search)
Includes(target, search) ==
    \E i \in 0 .. Len(target) :
        /\ i + Len(search) <= Len(target)
        /\ \A j \in 1 .. Len(search) : target[i + j] = search[j]

\* The collation order of the characters the seed names, emails and
\* documents normalise to: white space, punctuation, digits, letters.
Collation == <<" ", "-", ".", "@",
               "0", "1", "2", "3", "4", "5", "6", "7", "8", "9">> \o Lower

RankOf ==
    [c \in {Collation[i] : i \in 1 .. Len(Collation)} |->
        CHOOSE i \in 1 .. Len(Collation) : Collation[i] = c]

Rank(c) == IF c \in DOMAIN RankOf THEN RankOf[c] ELSE 0

RECURSIVE localeCompare(_, _)
\* a.localeCompare(b): negative, zero or positive.
localeCompare(a, b) ==
    IF a = <<>> /\ b = <<>> THEN 0
    ELSE IF a = <<>> THEN -1
    ELSE IF b = <<>> THEN 1
    ELSE IF Rank(Head(a)) < Rank(Head(b)) THEN -1
    ELSE IF Rank(Head(a)) > Rank(Head(b)) THEN 1
    ELSE localeCompare(Tail(a), Tail(b))

Digits == <<"0", "1", "2", "3", "4", "5", "6", "7", "8", "9">>

\* The value of each decimal digit.
DigitOf ==
    [c \in {Digits[i] : i \in 1 .. Len(Digits)} |->
        (CHOOSE i \in 1 .. Len(Digits) : Digits[i] = c) - 1]

IsDigit(c) == c \in DOMAIN DigitOf
WhiteSpace == {" "}

RECURSIVE SkipWhiteSpace(_)
SkipWhiteSpace(s) ==
    IF s # <<>> /\ Head(s) \in WhiteSpace THEN SkipWhiteSpace(Tail(s)) ELSE s

RECURSIVE DigitsValue(_, _)
\* The value of the longest prefix of decimal digits of s, acc so far.
DigitsValue(s, acc) ==
    IF s = <<>> \/ ~IsDigit(Head(s)) THEN acc
    ELSE DigitsValue(Tail(s), 10 * acc + DigitOf[Head(s)])

\* parseInt(s, 10)
parseInt(s) ==
    LET t == SkipWhiteSpace(s)
        neg == t # <<>> /\ Head(t) = "-"
        u == IF t # <<>> /\ Head(t) \in {"-", "+"} THEN Tail(t) ELSE t
    IN  IF u = <<>> \/ ~IsDigit(Head(u)) THEN NaN
        ELSE Num(IF neg THEN 0 - DigitsValue(u, 0) ELSE DigitsValue(u, 0))

----------------------------------------------------------------------------
(* The seed data.                                                          *)

SeedEvents == <<
    [id |-> "evt_123",
     title |-> "Conferência de Tecnologia 2025",
     startsAt |-> "2025-09-15T09:00:00-03:00",
     endsAt |-> "2025-09-15T18:00:00-03:00",
     location |-> "Auditório AMF",
     attendees |-> <<
        [id |-> "att_001",
         name |-> <<"A", "n", "a", " ", "S", "o", "u", "z", "a">>,
         email |-> <<"a", "n", "a", "@", "e", "x", "e", "m", "p", "l", "o", ".", "c", "o", "m">>,
         document |-> <<"1", "2", "3", ".", "4", "5", "6", ".", "7", "8", "9", "-", "0", "0">>,
         checkedInAt |-> Null],
        [id |-> "att_002",
         name |-> <<"J", "o", "s", "é", " ", "d", "a", " ", "S", "i", "l", "v", "a">>,
         email |-> <<"j", "o", "s", "e", "@", "e", "x", "e", "m", "p", "l", "o", ".", "c", "o", "m">>,
         document |-> <<"9", "8", "7", ".", "6", "5", "4", ".", "3", "2", "1", "-", "0", "0">>,
         checkedInAt |-> Null],
        [id |-> "att_003",
         name |-> <<"M", "a", "r", "c", "o", "s", " ", "P", "e", "r", "e", "i", "r", "a">>,
         email |-> <<"m", "a", "r", "c", "o", "s", "@", "e", "x", "e", "m", "p", "l", "o", ".", "c", "o", "m">>,
         document |-> <<"1", "1", "1", ".", "2", "2", "2", ".", "3", "3", "3", "-", "4", "4">>,
         checkedInAt |-> "2025-09-15T09:32:12-03:00"]
     >>],
    [id |-> "evt_456",
     title |-> "Simpósio de IA Aplicada",
     startsAt |-> "2025-10-10T14:00:00-03:00",
     endsAt |-> "2025-10-10T19:00:00-03:00",
     location |-> "Centro de Inovação",
     attendees |-> <<
        [id |-> "att_101",
         name |-> <<"B", "i", "a", "n", "c", "a", " ", "F", "e", "l", "i", "x">>,
         email |-> <<"b", "i", "a", "n", "c", "a", "@", "e", "x", "e", "m", "p", "l", "o", ".", "c", "o", "m">>,
         document |-> <<"2", "2", "2", ".", "3", "3", "3", ".", "4", "4", "4", "-", "5", "5">>,
         checkedInAt |-> Null],
        [id |-> "att_102",
         name |-> <<"F", "e", "l", "i", "p", "e", " ", "N", "u", "n", "e", "s">>,
         email |-> <<"f", "e", "l", "i", "p", "e", "@", "e", "x", "e", "m", "p", "l", "o", ".", "c", "o", "m">>,
         document |-> <<"3", "3", "3", ".", "4", "4", "4", ".", "5", "5", "5", "-", "6", "6">>,
         checkedInAt |-> Null]
     >>]
>>

----------------------------------------------------------------------------
(* Requests and responses.                                                 *)

\* A query-string parameter that is not present reads as undefined.
Absent == <<Undefined>>

\* v || d for a query-string value: undefined and '' are falsy.
OrDefault(v, d) == IF v = Absent \/ v = <<>> THEN d ELSE v

NoBody == [kind |-> "none", value |-> [attendeeId |-> Undefined]]
MalformedBody == [kind |-> "malformed", value |-> [attendeeId |-> Undefined]]
JsonBody(attendeeId) == [kind |-> "json", value |-> [attendeeId |-> attendeeId]]

NoQuery == [search |-> Absent, page |-> Absent, limit |-> Absent]

Request(route, eventId, authorization, body, query) ==
    [route |-> route, eventId |-> eventId, authorization |-> authorization,
     body |-> body, query |-> query]

Response(status, body) == [status |-> status, body |-> body]

----------------------------------------------------------------------------
(* Middleware.                                                             *)

\* express.json(): a body that is not valid JSON ends the request with 400
\* through the error path, which skips every later middleware and route.
jsonParser(req) ==
    IF req.body.kind = "malformed"
    THEN [next |-> FALSE,
          res |-> Response(400, [error |-> "entity.parse.failed"])]
    ELSE [next |-> TRUE, res |-> Response(0, [error |-> ""])]

\* The authorization header differs from `Bearer ${TOKEN}`.
authMiddleware(req) ==
    IF ~Truthy(TOKEN) THEN [next |-> TRUE, res |-> Response(0, [error |-> ""])]
    ELSE LET header == IF Truthy(req.authorization) THEN req.authorization ELSE ""
             expected == "Bearer " \o TOKEN
         IN  IF header = expected
             THEN [next |-> TRUE, res |-> Response(0, [error |-> ""])]
             ELSE [next |-> FALSE, res |-> Response(401, [error |-> "Unauthorized"])]

\* The app.use chain in registration order: express.json, then authMiddleware
\* (helmet, cors and morgan neither answer these requests nor touch the store).
Middleware(req) ==
    LET parsed == jsonParser(req)
    IN  IF ~parsed.next THEN parsed ELSE authMiddleware(req)

----------------------------------------------------------------------------
(* Route handlers.  Each returns [res, events]: the response and the store *)
(* the handler leaves behind.                                              *)

findEvent(store, eventId) ==
    SelectIndex([i \in 1 .. Len(store) |-> store[i].id], {eventId}, 1)

\* buildStats counting every attendee whose checkedInAt is not undefined.
buildStatsCountingDefined(event) ==
    LET total == Len(event.attendees)
        checkedIn == Len(SelectSeq(event.attendees,
                                   LAMBDA a : a.checkedInAt # Undefined))
    IN  [total |-> total, checkedIn |-> checkedIn, absent |-> total - checkedIn]

buildStats(event) ==
    LET total == Len(event.attendees)
        checkedIn == Len(SelectSeq(event.attendees,
                                   LAMBDA a : Truthy(a.checkedInAt)))
    IN  [total |-> total, checkedIn |-> checkedIn, absent |-> total - checkedIn]

EventView(e) ==
    [id |-> e.id, title |-> e.title, startsAt |-> e.startsAt,
     endsAt |-> e.endsAt, location |-> e.location, stats |-> buildStats(e)]

NotFound == Response(404, [error |-> "Event not found"])

HealthHandler(store, now) ==
    [res |-> Response(200, [status |-> "ok", time |-> ISO(now)]),
     events |-> store]

ListEventsHandler(store) ==
    [res |-> Response(200, [i \in 1 .. Len(store) |-> EventView(store[i])]),
     events |-> store]

GetEventHandler(store, eventId) ==
    LET i == findEvent(store, eventId)
    IN  IF i = 0 THEN [res |-> NotFound, events |-> store]
        ELSE [res |-> Response(200, EventView(store[i])), events |-> store]

\* The text of an attendee the search is matched against.
SearchTarget(a) ==
    normalize(a.name) \o <<" ">> \o normalize(a.email) \o <<" ">>
        \o normalize(a.document)

\* list.filter(...) when search is non-empty, the list itself otherwise.
FilterAttendees(list, search) ==
    IF search = <<>> THEN list
    ELSE SelectSeq(list, LAMBDA a : Includes(SearchTarget(a), search))

\* The comparator of list.sort.
CompareByName(a, b) == localeCompare(normalize(a.name), normalize(b.name))

\* a inserted into the sorted list after every element that does not
\* compare greater than it (Array.prototype.sort is stable).
InsertSorted(sorted, a) ==
    LET after == {i \in 1 .. Len(sorted) : CompareByName(sorted[i], a) > 0}
        k == IF after = {} THEN Len(sorted) + 1
             ELSE CHOOSE i \in after : \A j \in after : i <= j
    IN  SubSeq(sorted, 1, k - 1) \o <<a>> \o SubSeq(sorted, k, Len(sorted))

RECURSIVE SortByName(_)
SortByName(list) ==
    IF list = <<>> THEN <<>>
    ELSE InsertSorted(SortByName(SubSeq(list, 1, Len(list) - 1)),
                      list[Len(list)])

\* The filtered, sorted list the pages are cut from.
MatchingAttendees(event, search) ==
    SortByName(FilterAttendees(event.attendees, search))

\* JS arithmetic on numbers: NaN is contagious.
Minus(a, b) == IF a.isNaN \/ b.isNaN THEN NaN ELSE Num(a.val - b.val)
Times(a, b) == IF a.isNaN \/ b.isNaN THEN NaN ELSE Num(a.val * b.val)
Plus(a, b) == IF a.isNaN \/ b.isNaN THEN NaN ELSE Num(a.val + b.val)

DefaultPage == <<"1">>
DefaultLimit == <<"2", "0">>

\* Math.max(parseInt(req.query.page || '1', 10), 1)
EffectivePage(query) ==
    MathMax(parseInt(OrDefault(query.page, DefaultPage)), Num(1))

\* Math.max(parseInt(req.query.limit || '20', 10), 1)
EffectiveLimit(query) ==
    MathMax(parseInt(OrDefault(query.limit, DefaultLimit)), Num(1))

\* start = page * limit
PageStartOffByOne(page, limit) == Times(page, limit)

\* start = (page - 1) * limit
PageStart(page, limit) == Times(Minus(page, Num(1)), limit)

\* list.slice(start, start + limit)
PageOf(list, page, limit) ==
    LET start == PageStart(page, limit)
    IN  Slice(list, start, Plus(start, limit))

\* event.attendees after a handler that filters and sorts the stored array.
AttendeesReplacedByList(event, list) == list

\* event.attendees after the handler sorted `list`: list is a copy
\* (event.attendees.slice()), so the stored array keeps its order.
AttendeesAfterList(event, list) == event.attendees

\* res.json serialises a NaN page or limit as null.
AttendeesHandler(store, eventId, query) ==
    LET i == findEvent(store, eventId)
    IN  IF i = 0 THEN [res |-> NotFound, events |-> store]
        ELSE LET search == normalize(OrDefault(query.search, <<>>))
                 page == EffectivePage(query)
                 limit == EffectiveLimit(query)
                 list == MatchingAttendees(store[i], search)
             IN  [res |-> Response(200, [data |-> PageOf(list, page, limit),
                                         page |-> page,
                                         limit |-> limit,
                                         total |-> Len(list)]),
                  events |-> [store EXCEPT
                                 ![i].attendees = AttendeesAfterList(store[i], list)]]

\* const { attendeeId } = req.body || {}
BodyAttendeeId(body) ==
    IF body.kind = "json" THEN body.value.attendeeId ELSE Undefined

\* if (attendeeId === undefined)
MissingOnlyUndefined(attendeeId) == attendeeId = Undefined

\* if (!attendeeId)
MissingAttendeeId(attendeeId) == ~Truthy(attendeeId)

\* The attendee looked up among the attendees of every event.
findAttendeeAnywhere(event, attendeeId) ==
    LET hits == {k \in 1 .. Len(event.attendees) :
                    \E i \in 1 .. Len(events) :
                        /\ k <= Len(events[i].attendees)
                        /\ events[i].attendees[k].id = attendeeId}
    IN  IF hits = {} THEN 0 ELSE CHOOSE k \in hits : \A j \in hits : k <= j

\* event.attendees.find((a) => a.id === attendeeId): its index, or 0.
findAttendee(event, attendeeId) ==
    SelectIndex([j \in 1 .. Len(event.attendees) |-> event.attendees[j].id],
                {attendeeId}, 1)

AttendeeRequired == Response(400, [error |-> "attendeeId is required"])

AttendeeNotInEvent == Response(422, [error |-> "Attendee not in this event"])

\* The check of the stored timestamp left out.
NeverCheckedIn(attendee) == FALSE

\* if (attendee.checkedInAt): the attendee is already checked in.
AlreadyCheckedIn(attendee) == Truthy(attendee.checkedInAt)

\* A 409 response that carries the current time.
ConflictResponseFresh(attendeeId, attendee, now) ==
    Response(409, [attendeeId |-> attendeeId, checkedInAt |-> ISO(now)])

\* The 409 response: it echoes the stored timestamp.
ConflictResponse(attendeeId, attendee, now) ==
    Response(409, [attendeeId |-> attendeeId,
                   checkedInAt |-> attendee.checkedInAt])

\* Every attendee of event i marked.
MarkAllCheckedIn(store, i, k, now) ==
    [store EXCEPT ![i].attendees =
        [j \in 1 .. Len(store[i].attendees) |->
            [store[i].attendees[j] EXCEPT !.checkedInAt = ISO(now)]]]

\* attendee.checkedInAt = nowISO() for attendee k of event i.
MarkCheckedIn(store, i, k, now) ==
    [store EXCEPT ![i].attendees[k].checkedInAt = ISO(now)]

CheckinHandler(store, eventId, body, now) ==
    LET i == findEvent(store, eventId)
        attendeeId == BodyAttendeeId(body)
    IN  IF i = 0 THEN [res |-> NotFound, events |-> store]
        ELSE IF MissingAttendeeId(attendeeId)
        THEN [res |-> AttendeeRequired, events |-> store]
        ELSE LET k == findAttendee(store[i], attendeeId)
             IN  IF k = 0
                 THEN [res |-> AttendeeNotInEvent, events |-> store]
                 ELSE IF AlreadyCheckedIn(store[i].attendees[k])
                 THEN [res |-> ConflictResponse(attendeeId,
                                                store[i].attendees[k], now),
                       events |-> store]
                 ELSE LET marked == MarkCheckedIn(store, i, k, now)
                      IN  [res |-> Response(201,
                                     [attendeeId |-> attendeeId,
                                      checkedInAt |->
                                          marked[i].attendees[k].checkedInAt]),
                           events |-> marked]

Health == "GET /health"
ListEvents == "GET /events"
GetEvent == "GET /events/:id"
ListAttendees == "GET /events/:id/attendees"
Checkin == "POST /events/:id/checkin"

\* The router: the handler of the request's route.
Route(store, req, now) ==
    CASE req.route = Health -> HealthHandler(store, now)
      [] req.route = ListEvents -> ListEventsHandler(store)
      [] req.route = GetEvent -> GetEventHandler(store, req.eventId)
      [] req.route = ListAttendees -> AttendeesHandler(store, req.eventId, req.query)
      [] req.route = Checkin -> CheckinHandler(store, req.eventId, req.body, now)

\* One request from the first middleware to the response: [res, events].
Handle(store, req, now) ==
    IF Middleware(req).next THEN Route(store, req, now)
    ELSE [res |-> Middleware(req).res, events |-> store]

\* The record of an exchange; routed tells whether a route handler ran.
Exchange(req, res) ==
    [req |-> req, res |-> res, routed |-> Middleware(req).next]

----------------------------------------------------------------------------
(* The inputs the requests are drawn from.                                 *)

Secret == "s3cret"

\* process.env.TOKEN || null
Tokens == {Null, Secret}

\* The Authorization header: absent, the configured one, a wrong one.
Headers == {Undefined, "Bearer " \o Secret, "Bearer wrong"}

EventIds == {"evt_123", "evt_456", "does_not_exist"}

\* The attendeeId property of a JSON body: absent, null, empty, or an id
\* (att_002 and att_102 stay as seeded under Spec; SpecRace checks att_002 in).
AttendeeIds ==
    {Undefined, Null, "", "att_001", "att_003", "att_101", "att_999"}

Bodies == {NoBody, MalformedBody} \cup {JsonBody(a) : a \in AttendeeIds}

\* Query strings of the attendee listing.
Queries ==
    [search : {Absent, <<"J", "O", "S", "É">>},
     page : {Absent},
     limit : {Absent, <<"1">>}]

\* Query strings of the paging specification.
PagingQueries ==
    [search : {Absent, <<"J", "o", "s", "é">>, <<"e", "x", "e", "m", "p", "l", "o">>},
     page : {Absent, <<>>, <<"0">>, <<"a", "b", "c">>, <<"1">>, <<"2">>, <<"3">>},
     limit : {Absent, <<"-", "1">>, <<"a", "b", "c">>, <<"1">>, <<"2">>}]

\* Check-in requests of the concurrent specification.
RaceRequests ==
    {Request("POST /events/:id/checkin", e, h, JsonBody(a), NoQuery) :
        e \in {"evt_123", "evt_456"}, a \in {"att_002", "att_101"},
        h \in {Undefined, "Bearer " \o Secret}}

NoRequest == Request("none", Undefined, Undefined, NoBody, NoQuery)

----------------------------------------------------------------------------
(* The server, one request at a time.                                      *)

Init ==
    /\ TOKEN \in Tokens
    /\ events = SeedEvents
    /\ last = [req |-> NoRequest, res |-> Response(0, [error |-> ""]),
               routed |-> FALSE]
    /\ inflight = {}
    /\ responses = [id \in {} |-> NoRequest]
    /\ overlapped = {}

HealthRequest ==
    \E h \in Headers, now \in Clock :
        LET req == Request(Health, Undefined, h, NoBody, NoQuery)
        IN  \E out \in {Handle(events, req, now)} :
                /\ events' = out.events
                /\ last' = Exchange(req, out.res)
                /\ UNCHANGED <<TOKEN, inflight, responses, overlapped>>

ListEventsRequest ==
    \E h \in Headers :
        LET req == Request(ListEvents, Undefined, h, NoBody, NoQuery)
        IN  \E out \in {Handle(events, req, 1)} :
                /\ events' = out.events
                /\ last' = Exchange(req, out.res)
                /\ UNCHANGED <<TOKEN, inflight, responses, overlapped>>

GetEventRequest ==
    \E h \in Headers, id \in EventIds :
        LET req == Request(GetEvent, id, h, NoBody, NoQuery)
        IN  \E out \in {Handle(events, req, 1)} :
                /\ events' = out.events
                /\ last' = Exchange(req, out.res)
                /\ UNCHANGED <<TOKEN, inflight, responses, overlapped>>

ListAttendeesRequest ==
    \E h \in Headers, id \in EventIds, q \in Queries :
        LET req == Request(ListAttendees, id, h, NoBody, q)
        IN  \E out \in {Handle(events, req, 1)} :
                /\ events' = out.events
                /\ last' = Exchange(req, out.res)
                /\ UNCHANGED <<TOKEN, inflight, responses, overlapped>>

CheckinRequest ==
    \E h \in Headers, id \in EventIds, b \in Bodies, now \in Clock :
        LET req == Request(Checkin, id, h, b, NoQuery)
        IN  \E out \in {Handle(events, req, now)} :
                /\ events' = out.events
                /\ last' = Exchange(req, out.res)
                /\ UNCHANGED <<TOKEN, inflight, responses, overlapped>>

Next ==
    \/ HealthRequest
    \/ ListEventsRequest
    \/ GetEventRequest
    \/ ListAttendeesRequest
    \/ CheckinRequest

Spec == Init /\ [][Next]_vars

----------------------------------------------------------------------------
(* The attendee listing under a wider range of query strings.              *)

PagedListRequest ==
    \E id \in {"evt_123", "evt_456"}, q \in PagingQueries :
        LET req == Request(ListAttendees, id, "Bearer " \o Secret,
                                NoBody, q)
        IN  \E out \in {Handle(events, req, 1)} :
                /\ events' = out.events
                /\ last' = Exchange(req, out.res)
                /\ UNCHANGED <<TOKEN, inflight, responses, overlapped>>

NextPaging == PagedListRequest

SpecPaging == Init /\ [][NextPaging]_vars

----------------------------------------------------------------------------
(* Requests in flight at once.  express.json() reads the body              *)
(* asynchronously, so a second request can arrive while the first waits;   *)
(* once the body is read the rest of the chain and the route handler run   *)
(* synchronously to the response, with no await in between.                *)

RequestIds == 1 .. MaxRequests

Arrive ==
    \E id \in RequestIds, req \in RaceRequests :
        /\ id \notin DOMAIN responses
        /\ \A r \in inflight : r.id # id
        /\ inflight' = inflight \cup {[id |-> id, req |-> req]}
        /\ overlapped' = overlapped \cup {{id, r.id} : r \in inflight}
        /\ UNCHANGED <<TOKEN, events, last, responses>>

Dispatch ==
    \E r \in inflight, now \in Clock :
        \E out \in {Handle(events, r.req, now)} :
            /\ events' = out.events
            /\ last' = Exchange(r.req, out.res)
            /\ inflight' = inflight \ {r}
            /\ responses' = responses @@ (r.id :> Exchange(r.req, out.res))
            /\ UNCHANGED <<TOKEN, overlapped>>

NextRace == Arrive \/ Dispatch

SpecRace == Init /\ [][NextRace]_vars

----------------------------------------------------------------------------
(* Vocabulary of the properties.                                           *)

\* The exchange x ran the handler of `route`.
Ran(x, route) == x.routed /\ x.req.route = route

\* The exchange x is a check-in call for attendee a of event e that reached
\* the route handler.
Targets(x, e, a) ==
    /\ Ran(x, Checkin)
    /\ x.req.eventId = e
    /\ BodyAttendeeId(x.req.body) = a

\* The attendee identifiers a body can carry that count as missing.
MissingIds == {Undefined, Null, ""}

AttendeeIdsOf(event) ==
    [k \in 1 .. Len(event.attendees) |-> event.attendees[k].id]

CountCheckedIn(event) ==
    Cardinality({k \in 1 .. Len(event.attendees) :
                    event.attendees[k].checkedInAt # Null})

ExpectedStats(event) ==
    [total |-> Len(event.attendees),
     checkedIn |-> CountCheckedIn(event),
     absent |-> Len(event.attendees) - CountCheckedIn(event)]

Timestamps == {ISO(t) : t \in Clock}

----------------------------------------------------------------------------
(* C1.  Once an attendee's checkedInAt is non-null, no request changes it, *)
(* and every later check-in call for that attendee in that event that      *)
(* reaches the route handler is answered 409 with the stored timestamp.    *)

C1_CheckinMonotone ==
    [][\A i \in 1 .. Len(events) : \A k \in 1 .. Len(events[i].attendees) :
          LET old == events[i].attendees[k].checkedInAt
              id == events[i].attendees[k].id
          IN  old # Null =>
                /\ events'[i].attendees[k].checkedInAt = old
                /\ Targets(last', events[i].id, id) =>
                      last'.res = Response(409, [attendeeId |-> id,
                                                 checkedInAt |-> old])]_vars

\* A repeated check-in of an attendee who was not checked in by the seed.
C1_Witness ==
    /\ Targets(last, "evt_123", "att_001")
    /\ last.res.status = 409
    /\ last.res.body.checkedInAt \in Timestamps

----------------------------------------------------------------------------
(* C2.  Of the check-in calls for one event and one attendee of it that    *)
(* the seed left not checked in, received in any order and in flight at    *)
(* once or not, exactly one that reaches the route handler is answered     *)
(* 201; every other one is answered 409 with the timestamp the first one   *)
(* stored, which is written once.                                          *)

C2_OneSuccess ==
    \A i \in 1 .. Len(SeedEvents) : \A k \in 1 .. Len(SeedEvents[i].attendees) :
        LET e == SeedEvents[i].id
            a == SeedEvents[i].attendees[k].id
            answered == {id \in DOMAIN responses : Targets(responses[id], e, a)}
            won == {id \in answered : responses[id].res.status = 201}
        IN  SeedEvents[i].attendees[k].checkedInAt = Null =>
              /\ Cardinality(won) <= 1
              /\ answered = {} => events[i].attendees[k].checkedInAt = Null
              /\ answered # {} =>
                    /\ Cardinality(won) = 1
                    /\ \A w \in won :
                          /\ events[i].attendees[k].checkedInAt
                                = responses[w].res.body.checkedInAt
                          /\ \A id \in answered \ won :
                                responses[id].res =
                                    Response(409,
                                        [attendeeId |-> a,
                                         checkedInAt |->
                                             responses[w].res.body.checkedInAt])

\* Two calls for att_101 of evt_456 that were in flight at once, both
\* answered by the route handler.
C2_Witness ==
    \E r1 \in DOMAIN responses, r2 \in DOMAIN responses :
        /\ r1 # r2
        /\ {r1, r2} \in overlapped
        /\ Targets(responses[r1], "evt_456", "att_101")
        /\ Targets(responses[r2], "evt_456", "att_101")
        /\ responses[r1].res.status = 201
        /\ responses[r2].res.status = 409

----------------------------------------------------------------------------
(* C3.  A check-in call without an attendee identifier (no body, a body    *)
(* without the property, null or the empty string) that reaches the route  *)
(* handler changes nothing; it is answered 400 when the event exists and   *)
(* 404 when the path matches no event.                                     *)

C3_MissingAttendeeId ==
    [][(Ran(last', Checkin) /\ BodyAttendeeId(last'.req.body) \in MissingIds) =>
          /\ events' = events
          /\ last'.res.status =
                IF findEvent(events, last'.req.eventId) = 0 THEN 404 ELSE 400]_vars

C3_Witness ==
    /\ Ran(last, Checkin)
    /\ last.req.body.kind = "none"
    /\ last.req.eventId = "evt_123"
    /\ last.res = AttendeeRequired

\* The claim as written: 400 for every event identifier in the path.
C3_Original ==
    (Ran(last, Checkin) /\ BodyAttendeeId(last.req.body) \in MissingIds) =>
        last.res.status = 400

----------------------------------------------------------------------------
(* C4.  A check-in call on an existing event with an attendee identifier   *)
(* that is not among that event's attendees is answered 422 and leaves     *)
(* every attendee of every event unchanged, also when the identifier       *)
(* belongs to an attendee of another event.                                *)

C4_AttendeeNotInEvent ==
    [][\A i \in 1 .. Len(events) :
          (/\ Ran(last', Checkin)
           /\ last'.req.eventId = events[i].id
           /\ BodyAttendeeId(last'.req.body) \notin MissingIds
           /\ \A k \in 1 .. Len(events[i].attendees) :
                 events[i].attendees[k].id # BodyAttendeeId(last'.req.body))
          => (last'.res.status = 422 /\ events' = events)]_vars

\* att_101, an attendee of evt_456, posted to evt_123.
C4_Witness ==
    /\ Targets(last, "evt_123", "att_101")
    /\ last.res.status = 422
    /\ events[2].attendees[1].id = "att_101"
    /\ events[2].attendees[1].checkedInAt = Null

----------------------------------------------------------------------------
(* C5.  For every event the stats are total = number of attendees,         *)
(* checkedIn = number of attendees with a non-null timestamp and           *)
(* checkedIn + absent = total, in the store and in what get-event and      *)
(* list-events return; evt_123 reports {3, 1, 2} as long as its attendees  *)
(* are as seeded.                                                          *)

C5_Stats ==
    /\ \A i \in 1 .. Len(events) :
          /\ buildStats(events[i]) = ExpectedStats(events[i])
          /\ buildStats(events[i]).checkedIn + buildStats(events[i]).absent
                = buildStats(events[i]).total
    /\ (Ran(last, GetEvent) /\ last.res.status = 200) =>
          last.res.body.stats =
              ExpectedStats(events[findEvent(events, last.req.eventId)])
    /\ Ran(last, ListEvents) =>
          /\ Len(last.res.body) = Len(events)
          /\ \A i \in 1 .. Len(events) :
                /\ last.res.body[i].id = events[i].id
                /\ last.res.body[i].stats = ExpectedStats(events[i])
    /\ events[1].attendees = SeedEvents[1].attendees =>
          buildStats(events[1]) = [total |-> 3, checkedIn |-> 1, absent |-> 2]

\* get-event on evt_123 after one of its attendees checked in.
C5_Witness ==
    /\ Ran(last, GetEvent)
    /\ last.req.eventId = "evt_123"
    /\ last.res.status = 200
    /\ last.res.body.stats = [total |-> 3, checkedIn |-> 2, absent |-> 1]

----------------------------------------------------------------------------
(* C6.  For an existing event, any search text and an effective limit      *)
(* L >= 1, with total the number of matches: every page has at most L      *)
(* records and reports the same total; the pages 1 .. ceil(total / L) in   *)
(* order make up the filtered list sorted by name, every matching attendee *)
(* once; the page after the last is empty with the same total.             *)

\* The query q asking for page p.
PageQuery(q, p) == [q EXCEPT !.page = <<Digits[p + 1]>>]

\* The body of the listing of event e under query q.
ListingOf(e, q) == AttendeesHandler(events, e, q).res.body

RECURSIVE ConcatPages(_, _, _)
\* The data of pages 1 .. n of the listing, in order.
ConcatPages(e, q, n) ==
    IF n = 0 THEN <<>>
    ELSE ConcatPages(e, q, n - 1) \o ListingOf(e, PageQuery(q, n)).data

\* The attendees of the event that the search text matches.
Matches(event, search) ==
    {k \in 1 .. Len(event.attendees) :
        search = <<>> \/ Includes(SearchTarget(event.attendees[k]), search)}

C6_Pagination ==
    (/\ Ran(last, ListAttendees)
     /\ last.res.status = 200
     /\ ~last.res.body.limit.isNaN)
    => LET e == last.req.eventId
           q == last.req.query
           event == events[findEvent(events, e)]
           search == normalize(OrDefault(q.search, <<>>))
           L == last.res.body.limit.val
           total == last.res.body.total
           n == (total + L - 1) \div L
           all == ConcatPages(e, q, n)
       IN  /\ L >= 1
           /\ Len(last.res.body.data) <= L
           /\ total = Cardinality(Matches(event, search))
           /\ \A p \in 1 .. n + 1 :
                 /\ ListingOf(e, PageQuery(q, p)).total = total
                 /\ Len(ListingOf(e, PageQuery(q, p)).data) <= L
           /\ ListingOf(e, PageQuery(q, n + 1)).data = <<>>
           /\ Len(all) = total
           /\ {all[j].id : j \in 1 .. Len(all)}
                 = {event.attendees[k].id : k \in Matches(event, search)}
           /\ \A j \in 1 .. Len(all) : \A m \in 1 .. Len(all) :
                 /\ all[j] \in {event.attendees[k] : k \in Matches(event, search)}
                 /\ j < m => all[j].id # all[m].id
                 /\ j < m => CompareByName(all[j], all[m]) <= 0
           /\ ~last.res.body.page.isNaN =>
                 last.res.body.data =
                     Slice(all, Num((last.res.body.page.val - 1) * L),
                           Num(last.res.body.page.val * L))

\* Page 2 of three pages of one record each.
C6_Witness ==
    /\ Ran(last, ListAttendees)
    /\ last.res.status = 200
    /\ last.res.body.total = 3
    /\ last.res.body.limit = Num(1)
    /\ last.res.body.page = Num(2)
    /\ Len(last.res.body.data) = 1
    /\ last.res.body.data[1].id = "att_002"

----------------------------------------------------------------------------
(* C7.  Whatever the page and limit parameters are (absent, empty, zero,   *)
(* negative, not a number), the effective and echoed page and limit are    *)
(* integers >= 1, page 1 and limit 20 when the parameter is absent.        *)

C7_Original ==
    (Ran(last, ListAttendees) /\ last.res.status = 200) =>
        /\ ~last.res.body.page.isNaN
        /\ last.res.body.page.val >= 1
        /\ ~last.res.body.limit.isNaN
        /\ last.res.body.limit.val >= 1
        /\ last.req.query.page \in {Absent, <<>>} => last.res.body.page = Num(1)
        /\ last.req.query.limit \in {Absent, <<>>} => last.res.body.limit = Num(20)

----------------------------------------------------------------------------
(* C8.  With a secret configured, every request whose Authorization header *)
(* is not exactly `Bearer <secret>` is answered 401 before any route       *)
(* handler runs; with no secret configured no request is answered 401.     *)

C8_Original ==
    last.req # NoRequest =>
        IF TOKEN # Null
        THEN last.req.authorization # "Bearer " \o TOKEN =>
                (last.res.status = 401 /\ ~last.routed)
        ELSE last.res.status # 401

----------------------------------------------------------------------------
(* C9.  A check-in call that reaches the route handler, on an existing     *)
(* event and for an attendee of it whose timestamp is null, is answered    *)
(* 201 with the attendee identifier and the timestamp now stored, and      *)
(* changes that one timestamp only: checkedIn rises by one and absent      *)
(* falls by one.                                                           *)

C9_CheckinEffect ==
    [][\A i \in 1 .. Len(events) : \A k \in 1 .. Len(events[i].attendees) :
          (/\ Targets(last', events[i].id, events[i].attendees[k].id)
           /\ events[i].attendees[k].checkedInAt = Null)
          => /\ last'.res.status = 201
             /\ last'.res.body.attendeeId = events[i].attendees[k].id
             /\ last'.res.body.checkedInAt \in Timestamps
             /\ events' = [events EXCEPT ![i].attendees[k].checkedInAt =
                                             last'.res.body.checkedInAt]
             /\ ExpectedStats(events'[i]).checkedIn
                   = ExpectedStats(events[i]).checkedIn + 1
             /\ ExpectedStats(events'[i]).absent
                   = ExpectedStats(events[i]).absent - 1]_vars

C9_Witness ==
    /\ Targets(last, "evt_456", "att_101")
    /\ last.res.status = 201
    /\ events[2].attendees[1].checkedInAt = last.res.body.checkedInAt
    /\ events[1].attendees = SeedEvents[1].attendees

----------------------------------------------------------------------------
(* C10.  Only a check-in call answered 201 changes the store; every other  *)
(* request leaves it as it was, and no request changes the order of the    *)
(* events or of an event's attendees.                                      *)

C10_OnlyCheckinMutates ==
    [][/\ events' # events =>
             (Ran(last', Checkin) /\ last'.res.status = 201)
       /\ Len(events') = Len(events)
       /\ \A i \in 1 .. Len(events) :
             /\ events'[i].id = events[i].id
             /\ AttendeeIdsOf(events'[i]) = AttendeeIdsOf(events[i])]_vars

\* A listing whose search kept one attendee out of three, after which the
\* store still holds the three in insertion order.
C10_Witness ==
    /\ Ran(last, ListAttendees)
    /\ last.req.eventId = "evt_123"
    /\ last.res.status = 200
    /\ last.res.body.total = 1
    /\ AttendeeIdsOf(events[1]) = <<"att_001", "att_002", "att_003">>

====
